---- MODULE Spec2Model ----
(***************************************************************************)
(* The slash-command suggestion controller of the rich text editor:        *)
(* the command registry (slashCommands), the items filter and the render   *)
(* callbacks of the SlashCommand extension, and the SlashCommandsList      *)
(* component (selectedIndex, selectItem, onKeyDown).                       *)
(*                                                                         *)
(* Strings are sequences of one-character strings, so that toLowerCase,    *)
(* startsWith and includes are computed and not assumed.                   *)
(***************************************************************************)
EXTENDS Integers, Sequences, FiniteSets

\* ------------------------------------------------------------------ bounds

\* Longest query the user types after the trigger character.
MaxQueryLen == 2

\* ----------------------------------------------------------------- strings

\* The characters the user types into a query.
Alphabet == {"h", "H", "e", "z"}

UpperCase == <<"A","B","C","D","E","F","G","H","I","J","K","L","M",
               "N","O","P","Q","R","S","T","U","V","W","X","Y","Z">>
LowerCase == <<"a","b","c","d","e","f","g","h","i","j","k","l","m",
               "n","o","p","q","r","s","t","u","v","w","x","y","z">>

\* Every character of a registry string or of a query.
Char ==
  {UpperCase[i] : i \in 1..26} \cup {LowerCase[i] : i \in 1..26}
    \cup {" ", ".", "1", "2", "3", "/"} \cup Alphabet

\* String.prototype.toLowerCase on one character.
lowerChar ==
  [c \in Char |->
     IF \E i \in 1..26 : UpperCase[i] = c
       THEN LowerCase[CHOOSE i \in 1..26 : UpperCase[i] = c]
       ELSE c]

\* String.prototype.toLowerCase.
toLowerCase(s) == [i \in 1..Len(s) |-> lowerChar[s[i]]]

\* String.prototype.startsWith.
startsWith(s, q) ==
  /\ Len(q) <= Len(s)
  /\ \A i \in 1..Len(q) : s[i] = q[i]

\* String.prototype.includes.
includes(s, q) ==
  \E k \in 0..(Len(s) - Len(q)) : \A i \in 1..Len(q) : s[k + i] = q[i]

\* ---------------------------------------------------------------- registry

\* The chain of editor commands each registry entry runs, in order.
\* Only Callout puts deleteRange(range) in its chain.
ParagraphItem ==
  [title |-> <<"P","a","r","a","g","r","a","p","h">>,
   description |-> <<"N","o","r","m","a","l"," ","t","e","x","t"," ","s","t","y","l","e">>,
   icon |-> "Pilcrow",
   command |-> <<"focus", "setParagraph">>]
Heading1Item ==
  [title |-> <<"H","e","a","d","i","n","g"," ","1">>,
   description |-> <<"L","a","r","g","e"," ","s","e","c","t","i","o","n"," ","h","e","a","d","i","n","g">>,
   icon |-> "Heading1",
   command |-> <<"focus", "toggleHeading1">>]
Heading2Item ==
  [title |-> <<"H","e","a","d","i","n","g"," ","2">>,
   description |-> <<"M","e","d","i","u","m"," ","s","e","c","t","i","o","n"," ","h","e","a","d","i","n","g">>,
   icon |-> "Heading2",
   command |-> <<"focus", "toggleHeading2">>]
Heading3Item ==
  [title |-> <<"H","e","a","d","i","n","g"," ","3">>,
   description |-> <<"S","m","a","l","l"," ","s","e","c","t","i","o","n"," ","h","e","a","d","i","n","g">>,
   icon |-> "Heading3",
   command |-> <<"focus", "toggleHeading3">>]
BulletListItem ==
  [title |-> <<"B","u","l","l","e","t"," ","L","i","s","t">>,
   description |-> <<"C","r","e","a","t","e"," ","a"," ","s","i","m","p","l","e"," ","b","u","l","l","e","t"," ","l","i","s","t">>,
   icon |-> "List",
   command |-> <<"focus", "toggleBulletList">>]
OrderedListItem ==
  [title |-> <<"O","r","d","e","r","e","d"," ","L","i","s","t">>,
   description |-> <<"C","r","e","a","t","e"," ","a"," ","l","i","s","t"," ","w","i","t","h"," ","n","u","m","b","e","r","i","n","g">>,
   icon |-> "ListOrdered",
   command |-> <<"focus", "toggleOrderedList">>]
CalloutItem ==
  [title |-> <<"C","a","l","l","o","u","t">>,
   description |-> <<"C","r","e","a","t","e"," ","a"," ","c","a","l","l","o","u","t"," ","b","l","o","c","k"," ","w","i","t","h"," ","i","c","o","n"," ","a","n","d"," ","b","a","c","k","g","r","o","u","n","d",".">>,
   icon |-> "Megaphone",
   command |-> <<"focus", "deleteRange", "setCallout">>]

\* slashCommands as first declared: six commands.
slashCommandsBase ==
  <<ParagraphItem, Heading1Item, Heading2Item, Heading3Item,
    BulletListItem, OrderedListItem>>

\* slashCommands as declared last: the six commands and Callout.
slashCommands == slashCommandsBase \o <<CalloutItem>>

\* A registry longer than the cap of the items filter, made of the entries
\* of both declarations ("Add more commands as needed").
slashCommandsLong == slashCommandsBase \o slashCommands

\* The declaration of slashCommands that a name stands for.
Registry(name) ==
  CASE name = "slashCommandsBase" -> slashCommandsBase
    [] name = "slashCommands" -> slashCommands
    [] name = "slashCommandsLong" -> slashCommandsLong

\* ------------------------------------------------------------ items filter

\* ItemMatches with the title searched like the description.
ItemMatchesTitleIncludes(item, query) ==
  \/ includes(toLowerCase(item.title), toLowerCase(query))
  \/ includes(toLowerCase(item.description), toLowerCase(query))

\* ItemMatches with the title alone.
ItemMatchesTitleOnly(item, query) ==
  startsWith(toLowerCase(item.title), toLowerCase(query))

\* The predicate given to slashCommands.filter.
ItemMatches(item, query) ==
  \/ startsWith(toLowerCase(item.title), toLowerCase(query))
  \/ includes(toLowerCase(item.description), toLowerCase(query))

\* Array.prototype.filter over the positions of reg: the positions of the
\* matching entries, in ascending order.
RECURSIVE FilterFrom(_, _, _)
FilterFrom(reg, query, k) ==
  IF k > Len(reg) THEN <<>>
  ELSE IF ItemMatches(reg[k], query)
    THEN <<k>> \o FilterFrom(reg, query, k + 1)
    ELSE FilterFrom(reg, query, k + 1)

\* slice without its end: the whole array.
SliceFrontNoCap(s, n) == s

\* Array.prototype.slice(0, n).
SliceFront(s, n) == SubSeq(s, 1, IF Len(s) < n THEN Len(s) ELSE n)

\* suggestion.items({ query }): filter, then slice(0, 10).  An item is held
\* as the position of its entry in the registry.
Items(reg, query) == SliceFront(FilterFrom(reg, query, 1), 10)

\* ------------------------------------------------------ SlashCommandsList

\* The value (prevIndex + 1) % items.length has when items.length is 0, and
\* every number computed from it: NaN, which is no index of any list.
NaN == -1

\* ArrowUp stepping the way ArrowDown does.
ArrowUpIndexDown(prevIndex, length) ==
  IF prevIndex = NaN \/ length = 0 THEN NaN
  ELSE (prevIndex + length + 1) % length

\* The updater ArrowUp gives to setSelectedIndex.
ArrowUpIndex(prevIndex, length) ==
  IF prevIndex = NaN \/ length = 0 THEN NaN
  ELSE (prevIndex + length - 1) % length

\* ArrowDown wrapping one position late.
ArrowDownIndexLate(prevIndex, length) ==
  IF prevIndex = NaN \/ length = 0 THEN NaN
  ELSE (prevIndex + 1) % (length + 1)

\* The updater ArrowDown gives to setSelectedIndex.
ArrowDownIndex(prevIndex, length) ==
  IF prevIndex = NaN \/ length = 0 THEN NaN
  ELSE (prevIndex + 1) % length

\* selectItem taking the nearest item when items[index] is undefined.
selectItemClamped(its, index, rng) ==
  IF its = <<>> THEN <<>>
  ELSE IF index = NaN \/ index < 0
    THEN <<[item |-> its[1], range |-> rng]>>
  ELSE IF index >= Len(its)
    THEN <<[item |-> its[Len(its)], range |-> rng]>>
  ELSE <<[item |-> its[index + 1], range |-> rng]>>

\* selectItem(index): the calls of command(item) it makes, none when
\* items[index] is undefined.  Indices are zero-based as in the source.
selectItem(its, index, rng) ==
  IF index # NaN /\ index >= 0 /\ index < Len(its)
    THEN <<[item |-> its[index + 1], range |-> rng]>>
    ELSE <<>>

\* What the list component renders: nothing (null) for an empty list, else
\* one option for every item, the one at selectedIndex marked as selected.
RenderList(its, sel) ==
  IF Len(its) = 0 THEN <<>>
  ELSE [i \in 1..Len(its) |-> [item |-> its[i], selected |-> (i - 1 = sel)]]

\* ------------------------------------------------------------ text surface

\* One editor command of a chain, applied to the text d of the document.
\* deleteRange(range) removes the characters from range.from up to range.to;
\* the other commands change the block around the text, not the text.
ChainStep(step, d, rng) ==
  IF step = "deleteRange"
    THEN SubSeq(d, 1, rng.from - 1) \o SubSeq(d, rng.to, Len(d))
    ELSE d

\* editor.chain()...run(): the steps of a chain, first to last.
RECURSIVE RunChain(_, _, _)
RunChain(chain, d, rng) ==
  IF chain = <<>> THEN d
  ELSE RunChain(Tail(chain), ChainStep(Head(chain), d, rng), rng)

\* suggestion.command: props.command({ editor, range }) for every call made.
RunCalls(reg, cs, d) ==
  IF cs = <<>> THEN d
  ELSE RunChain(reg[cs[1].item].command, d, cs[1].range)

\* The suggestion utility's match of char '/' before the caret (the caret is
\* at the end of the text): the trigger character is still in the text.
TriggerPresent(text) == \E p \in 1..Len(text) : text[p] = "/"

\* The trigger character may start a run at the start of the text or after
\* a space.
TriggerAllowed(text) == IF text = <<>> THEN TRUE ELSE text[Len(text)] = " "

\* The texts the user has before opening a session.
InitialDocs == {<<>>, <<"a", " ">>}

\* ------------------------------------------------------------------- state

VARIABLES
  registry,       \* the name of the slashCommands array the module exports
  doc,            \* the text surface: the text before the caret
  active,         \* the suggestion utility has a session open
  query,          \* the text after the trigger character
  range,          \* from/to of the trigger character and the query
  items,          \* props.items of the list component
  selectedIndex,  \* useState(0) of the list component
  component,      \* render(): let component
  popup,          \* render(): let popup
  lastEvent,      \* the event handled last
  consumed,       \* what onKeyDown returned for the key handled last
  calls,          \* the command(item) calls the last handler made
  clicked,        \* the index of the button clicked last
  indexBefore,    \* selectedIndex when the last handler began
  threw,          \* the last handler raised a TypeError
  downStart,      \* selectedIndex before the current run of ArrowDown keys
  downCount,      \* the length of the current run of ArrowDown keys
  hadRect,        \* props.clientRect was there in the last onStart/onUpdate
  livePopups,     \* the popups created and not destroyed
  liveComponents, \* the list components created and not destroyed
  renderedIndex,  \* the selectedIndex the list's last render captured
  effectPending,  \* the effect on [items] of the last render has not run
  escaped,        \* Escape was pressed in the session that is open
  handleUsed      \* the popup the last handler called a method of

vars ==
  <<registry, doc, active, query, range, items, selectedIndex, component,
    popup, lastEvent, consumed, calls, clicked, indexBefore, threw, downStart,
    downCount, hadRect, livePopups, liveComponents, renderedIndex,
    effectPending, escaped, handleUsed>>

NoRange == [from |-> 0, to |-> 0]

InitWith(regs) ==
  /\ registry \in regs
  /\ doc \in InitialDocs
  /\ active = FALSE
  /\ query = <<>>
  /\ range = NoRange
  /\ items = <<>>
  /\ selectedIndex = 0
  /\ component = "undefined"
  /\ popup = "undefined"
  /\ lastEvent = "init"
  /\ consumed = FALSE
  /\ calls = <<>>
  /\ clicked = 0
  /\ indexBefore = 0
  /\ threw = FALSE
  /\ downStart = 0
  /\ downCount = 0
  /\ hadRect = FALSE
  /\ livePopups = 0
  /\ liveComponents = 0
  /\ renderedIndex = 0
  /\ effectPending = FALSE
  /\ escaped = FALSE
  /\ handleUsed = "none"

Init == InitWith({"slashCommandsBase", "slashCommands"})

\* The popup a method is called of: a popup that is alive (shown or hidden),
\* a destroyed one, or undefined.
Handle(p) == IF p \in {"shown", "hidden"} THEN "live" ELSE p

\* The history of a handler that is no key, makes no call and raises nothing.
Plain(ev) ==
  /\ lastEvent' = ev
  /\ consumed' = FALSE
  /\ calls' = <<>>
  /\ clicked' = 0
  /\ indexBefore' = selectedIndex
  /\ downStart' = 0
  /\ downCount' = 0

\* --------------------------------------------------------- render callbacks

\* onStart(props): a new ReactRenderer (state selectedIndex = 0), and a popup
\* only when props.clientRect is there.
onStart(q, hasRect) ==
  /\ component' = "live"
  /\ items' = Items(Registry(registry), q)
  /\ selectedIndex' = 0
  /\ popup' = IF hasRect THEN "shown" ELSE popup
  /\ threw' = FALSE
  /\ hadRect' = hasRect
  /\ liveComponents' = liveComponents + 1
  /\ livePopups' = IF hasRect THEN livePopups + 1 ELSE livePopups
  /\ renderedIndex' = 0
  /\ effectPending' = FALSE
  /\ escaped' = FALSE
  /\ handleUsed' = "none"

\* onUpdate without the effect that resets selectedIndex.
onUpdateNoReset(q, hasRect) ==
  /\ items' = Items(Registry(registry), q)
  /\ selectedIndex' = selectedIndex
  /\ renderedIndex' = selectedIndex
  /\ threw' = (hasRect /\ popup = "undefined")
  /\ hadRect' = hasRect
  /\ UNCHANGED <<component, popup, livePopups, liveComponents>>
  /\ effectPending' = FALSE
  /\ handleUsed' = IF hasRect THEN Handle(popup) ELSE "none"
  /\ UNCHANGED escaped

\* onUpdate resetting selectedIndex only when it is no index of the new list.
onUpdateKeepValid(q, hasRect) ==
  /\ items' = Items(Registry(registry), q)
  /\ selectedIndex' =
       IF selectedIndex # NaN /\ selectedIndex < Len(Items(Registry(registry), q))
         THEN selectedIndex ELSE 0
  /\ renderedIndex' =
       IF selectedIndex # NaN /\ selectedIndex < Len(Items(Registry(registry), q))
         THEN selectedIndex ELSE 0
  /\ threw' = (hasRect /\ popup = "undefined")
  /\ hadRect' = hasRect
  /\ UNCHANGED <<component, popup, livePopups, liveComponents>>
  /\ effectPending' = FALSE
  /\ handleUsed' = IF hasRect THEN Handle(popup) ELSE "none"
  /\ UNCHANGED escaped

\* onUpdate destroying the component when no command matches.
onUpdateClosesOnEmpty(q, hasRect) ==
  /\ items' = Items(Registry(registry), q)
  /\ selectedIndex' = 0
  /\ threw' = (hasRect /\ popup = "undefined")
  /\ hadRect' = hasRect
  /\ component' =
       IF Items(Registry(registry), q) = <<>> THEN "destroyed" ELSE component
  /\ UNCHANGED <<popup, livePopups, liveComponents>>
  /\ renderedIndex' = 0
  /\ effectPending' = FALSE
  /\ handleUsed' = IF hasRect THEN Handle(popup) ELSE "none"
  /\ UNCHANGED escaped

\* onUpdate(props): component.updateProps(props), after which the effect on
\* [items] sets selectedIndex to 0; then popup[0].setProps when
\* props.clientRect is there, a TypeError when popup is undefined.
onUpdate(q, hasRect) ==
  /\ items' = Items(Registry(registry), q)
  /\ selectedIndex' = 0
  /\ renderedIndex' = 0
  /\ threw' = (hasRect /\ popup = "undefined")
  /\ hadRect' = hasRect
  /\ UNCHANGED <<component, popup, livePopups, liveComponents>>
  /\ effectPending' = FALSE
  /\ handleUsed' = IF hasRect THEN Handle(popup) ELSE "none"
  /\ UNCHANGED escaped

\* onExit without popup[0].destroy().
onExitKeepsPopup ==
  /\ UNCHANGED <<popup, livePopups>>
  /\ handleUsed' = "none"
  /\ renderedIndex' = 0
  /\ effectPending' = FALSE
  /\ escaped' = FALSE
  /\ component' = IF component = "undefined" THEN component ELSE "destroyed"
  /\ liveComponents' =
       IF component = "live" THEN liveComponents - 1 ELSE liveComponents
  /\ hadRect' = FALSE
  /\ items' = <<>>
  /\ selectedIndex' = 0
  /\ active' = FALSE
  /\ query' = <<>>
  /\ range' = NoRange

\* onExit without component.destroy().
onExitKeepsComponent ==
  /\ popup' = IF popup = "undefined" THEN popup ELSE "destroyed"
  /\ livePopups' =
       IF popup \in {"shown", "hidden"} THEN livePopups - 1 ELSE livePopups
  /\ UNCHANGED <<component, liveComponents>>
  /\ handleUsed' = IF popup = "undefined" THEN "none" ELSE Handle(popup)
  /\ renderedIndex' = 0
  /\ effectPending' = FALSE
  /\ escaped' = FALSE
  /\ hadRect' = FALSE
  /\ items' = <<>>
  /\ selectedIndex' = 0
  /\ active' = FALSE
  /\ query' = <<>>
  /\ range' = NoRange

\* onExit(): popup[0].destroy() if there is a popup, component.destroy().
\* The destroyed component holds no props and no state.
onExit ==
  /\ popup' = IF popup = "undefined" THEN popup ELSE "destroyed"
  /\ livePopups' =
       IF popup \in {"shown", "hidden"} THEN livePopups - 1 ELSE livePopups
  /\ component' = IF component = "undefined" THEN component ELSE "destroyed"
  /\ liveComponents' =
       IF component = "live" THEN liveComponents - 1 ELSE liveComponents
  /\ handleUsed' = IF popup = "undefined" THEN "none" ELSE Handle(popup)
  /\ renderedIndex' = 0
  /\ effectPending' = FALSE
  /\ escaped' = FALSE
  /\ hadRect' = FALSE
  /\ items' = <<>>
  /\ selectedIndex' = 0
  /\ active' = FALSE
  /\ query' = <<>>
  /\ range' = NoRange

\* ------------------------------------------------------------------ actions

\* The user types the trigger character: the utility opens a session.
TypeTrigger ==
  /\ ~active
  /\ TriggerAllowed(doc)
  /\ \E hasRect \in BOOLEAN :
       /\ doc' = doc \o <<"/">>
       /\ active' = TRUE
       /\ query' = <<>>
       /\ range' = [from |-> Len(doc) + 1, to |-> Len(doc) + 2]
       /\ onStart(<<>>, hasRect)
       /\ Plain("onStart")
  /\ UNCHANGED registry

\* The user types a character of the query: onKeyDown returns false, the
\* text surface inserts it, the utility calls onUpdate.
TypeChar ==
  /\ active
  /\ Len(query) < MaxQueryLen
  /\ \E c \in Alphabet, hasRect \in BOOLEAN :
       /\ doc' = doc \o <<c>>
       /\ query' = query \o <<c>>
       /\ range' = [range EXCEPT !.to = range.to + 1]
       /\ onUpdate(query \o <<c>>, hasRect)
       /\ Plain("onUpdate")
  /\ UNCHANGED <<registry, active>>

\* Backspace inside the query: the query shrinks, the utility calls onUpdate.
Backspace ==
  /\ active
  /\ query # <<>>
  /\ \E hasRect \in BOOLEAN :
       /\ doc' = SubSeq(doc, 1, Len(doc) - 1)
       /\ query' = SubSeq(query, 1, Len(query) - 1)
       /\ range' = [range EXCEPT !.to = range.to - 1]
       /\ onUpdate(SubSeq(query, 1, Len(query) - 1), hasRect)
       /\ Plain("onUpdate")
  /\ UNCHANGED <<registry, active>>

\* Backspace over the trigger character: the utility closes the session.
DeleteTrigger ==
  /\ active
  /\ query = <<>>
  /\ TriggerPresent(doc)
  /\ doc' = SubSeq(doc, 1, Len(doc) - 1)
  /\ onExit
  /\ threw' = FALSE
  /\ Plain("onExit")
  /\ UNCHANGED registry

\* The caret leaves the range: the utility closes the session.
MoveCaretOut ==
  /\ active
  /\ onExit
  /\ threw' = FALSE
  /\ Plain("onExit")
  /\ UNCHANGED <<registry, doc>>

\* With no session open the user edits the text surface.
EditOutside ==
  /\ ~active
  /\ doc' \in InitialDocs
  /\ doc' # doc
  /\ threw' = FALSE
  /\ Plain("edit")
  /\ handleUsed' = "none"
  /\ UNCHANGED <<registry, active, query, range, items, selectedIndex,
                 component, popup, hadRect, livePopups, liveComponents,
                 renderedIndex, effectPending, escaped>>

\* render.onKeyDown with ArrowUp, forwarded to the list's onKeyDown.
ArrowUp ==
  /\ active
  /\ selectedIndex' = ArrowUpIndex(selectedIndex, Len(items))
  /\ renderedIndex' = ArrowUpIndex(selectedIndex, Len(items))
  /\ lastEvent' = "ArrowUp"
  /\ consumed' = TRUE
  /\ calls' = <<>>
  /\ clicked' = 0
  /\ indexBefore' = selectedIndex
  /\ threw' = FALSE
  /\ downStart' = 0
  /\ downCount' = 0
  /\ handleUsed' = "none"
  /\ UNCHANGED <<registry, doc, active, query, range, items, component, popup,
                 hadRect, livePopups, liveComponents, effectPending, escaped>>

\* render.onKeyDown with ArrowDown, forwarded to the list's onKeyDown.
ArrowDown ==
  /\ active
  /\ selectedIndex' = ArrowDownIndex(selectedIndex, Len(items))
  /\ renderedIndex' = ArrowDownIndex(selectedIndex, Len(items))
  /\ lastEvent' = "ArrowDown"
  /\ consumed' = TRUE
  /\ calls' = <<>>
  /\ clicked' = 0
  /\ indexBefore' = selectedIndex
  /\ threw' = FALSE
  /\ IF downCount = 0 \/ downCount >= Len(items)
       THEN downStart' = selectedIndex /\ downCount' = 1
       ELSE downStart' = downStart /\ downCount' = downCount + 1
  /\ handleUsed' = "none"
  /\ UNCHANGED <<registry, doc, active, query, range, items, component, popup,
                 hadRect, livePopups, liveComponents, effectPending, escaped>>

\* What follows command(item) calls cs: the commands edit the document, and
\* the utility closes the session when the trigger character is gone.
Commit(cs) ==
  /\ calls' = cs
  /\ indexBefore' = selectedIndex
  /\ doc' = RunCalls(Registry(registry), cs, doc)
  /\ IF TriggerPresent(RunCalls(Registry(registry), cs, doc))
       THEN /\ handleUsed' = "none"
            /\ UNCHANGED <<active, query, range, items, selectedIndex,
                           component, popup, hadRect, livePopups,
                           liveComponents, renderedIndex, effectPending,
                           escaped>>
       ELSE onExit
  /\ threw' = FALSE
  /\ downStart' = 0
  /\ downCount' = 0

\* Enter returning false when the list is empty.
EnterForwardsOnEmpty ==
  /\ active
  /\ Commit(selectItem(items, renderedIndex, range))
  /\ lastEvent' = "Enter"
  /\ consumed' = (items # <<>>)
  /\ clicked' = 0
  /\ UNCHANGED registry

\* render.onKeyDown with Enter: the list calls selectItem(selectedIndex),
\* selectedIndex being the value its last render captured.
Enter ==
  /\ active
  /\ Commit(selectItem(items, renderedIndex, range))
  /\ lastEvent' = "Enter"
  /\ consumed' = TRUE
  /\ clicked' = 0
  /\ UNCHANGED registry

\* A click that selects the highlighted item, not the clicked one.
ClickSelected ==
  /\ active
  /\ popup = "shown"
  /\ \E i \in 0..(Len(items) - 1) :
       /\ Commit(selectItem(items, selectedIndex, range))
       /\ clicked' = i
  /\ lastEvent' = "Click"
  /\ consumed' = FALSE
  /\ UNCHANGED registry

\* A click that selects the first item, whichever button was clicked.
ClickFirst ==
  /\ active
  /\ popup = "shown"
  /\ \E i \in 0..(Len(items) - 1) :
       /\ Commit(selectItem(items, 0, range))
       /\ clicked' = i
  /\ lastEvent' = "Click"
  /\ consumed' = FALSE
  /\ UNCHANGED registry

\* A click on the button of index i of the shown list: selectItem(i).
Click ==
  /\ active
  /\ popup = "shown"
  /\ \E i \in 0..(Len(items) - 1) :
       /\ Commit(selectItem(items, i, range))
       /\ clicked' = i
  /\ lastEvent' = "Click"
  /\ consumed' = FALSE
  /\ UNCHANGED registry

\* Escape that also deletes the trigger character and the query.
EscapeDeletesRange ==
  /\ active
  /\ popup' = IF popup = "shown" THEN "hidden" ELSE popup
  /\ threw' = (popup = "undefined")
  /\ consumed' = (popup # "undefined")
  /\ lastEvent' = "Escape"
  /\ calls' = <<>>
  /\ clicked' = 0
  /\ indexBefore' = selectedIndex
  /\ downStart' = 0
  /\ downCount' = 0
  /\ doc' = SubSeq(doc, 1, range.from - 1)
  /\ escaped' = TRUE
  /\ handleUsed' = Handle(popup)
  /\ UNCHANGED <<registry, active, query, range, items, selectedIndex,
                 component, hadRect, livePopups, liveComponents,
                 renderedIndex, effectPending>>

\* render.onKeyDown with Escape: popup[0].hide(), a TypeError when popup is
\* undefined; the utility keeps the session.
Escape ==
  /\ active
  /\ popup' = IF popup = "shown" THEN "hidden" ELSE popup
  /\ threw' = (popup = "undefined")
  /\ consumed' = (popup # "undefined")
  /\ lastEvent' = "Escape"
  /\ calls' = <<>>
  /\ clicked' = 0
  /\ indexBefore' = selectedIndex
  /\ downStart' = 0
  /\ downCount' = 0
  /\ escaped' = TRUE
  /\ handleUsed' = Handle(popup)
  /\ UNCHANGED <<registry, doc, active, query, range, items, selectedIndex,
                 component, hadRect, livePopups, liveComponents,
                 renderedIndex, effectPending>>

\* render.onKeyDown with a key that is none of Escape, ArrowUp, ArrowDown
\* and Enter and that edits nothing (Shift, say): the list's onKeyDown
\* returns false.
OtherKey ==
  /\ active
  /\ threw' = FALSE
  /\ Plain("OtherKey")
  /\ handleUsed' = "none"
  /\ UNCHANGED <<registry, doc, active, query, range, items, selectedIndex,
                 component, popup, hadRect, livePopups, liveComponents,
                 renderedIndex, effectPending, escaped>>

Next ==
  \/ TypeTrigger
  \/ TypeChar
  \/ Backspace
  \/ DeleteTrigger
  \/ MoveCaretOut
  \/ EditOutside
  \/ ArrowUp
  \/ ArrowDown
  \/ Enter
  \/ Click
  \/ Escape
  \/ OtherKey

Spec == Init /\ [][Next]_vars

\* The same controller over the long registry, which holds every item of
\* the two others.
InitLong == InitWith({"slashCommandsLong"})

SpecLong == InitLong /\ [][Next]_vars

\* ------------------------------------------- handlers and renders apart
\* The actions above take a handler together with the renders and the effect
\* its setSelectedIndex and updateProps calls lead to.  The actions below
\* take them apart: a key or a prop update first, the effect and the render
\* later, other keys in between.

\* The list's onKeyDown with ArrowUp before the list has rendered again.
ArrowUpKey ==
  /\ active
  /\ selectedIndex' = ArrowUpIndex(selectedIndex, Len(items))
  /\ threw' = FALSE
  /\ handleUsed' = "none"
  /\ Plain("ArrowUp")
  /\ UNCHANGED <<registry, doc, active, query, range, items, component, popup,
                 hadRect, livePopups, liveComponents, renderedIndex,
                 effectPending, escaped>>

\* The list's onKeyDown with ArrowDown before the list has rendered again.
ArrowDownKey ==
  /\ active
  /\ selectedIndex' = ArrowDownIndex(selectedIndex, Len(items))
  /\ threw' = FALSE
  /\ handleUsed' = "none"
  /\ Plain("ArrowDown")
  /\ UNCHANGED <<registry, doc, active, query, range, items, component, popup,
                 hadRect, livePopups, liveComponents, renderedIndex,
                 effectPending, escaped>>

\* The user types a character of the query and onUpdate renders the list
\* with the new items and sets the popup's props; the effect on [items] has
\* not run yet.
TypeCharProps ==
  /\ active
  /\ Len(query) < MaxQueryLen
  /\ \E c \in Alphabet, hasRect \in BOOLEAN :
       /\ doc' = doc \o <<c>>
       /\ query' = query \o <<c>>
       /\ range' = [range EXCEPT !.to = range.to + 1]
       /\ items' = Items(Registry(registry), query \o <<c>>)
       /\ hadRect' = hasRect
       /\ threw' = (hasRect /\ popup = "undefined")
       /\ handleUsed' = IF hasRect THEN Handle(popup) ELSE "none"
  /\ renderedIndex' = selectedIndex
  /\ effectPending' = TRUE
  /\ Plain("onUpdate")
  /\ UNCHANGED <<registry, active, selectedIndex, component, popup,
                 livePopups, liveComponents, escaped>>

\* The effect on [items] runs: setSelectedIndex(0).
ResetEffect ==
  /\ active
  /\ effectPending
  /\ effectPending' = FALSE
  /\ selectedIndex' = 0
  /\ UNCHANGED <<registry, doc, active, query, range, items, component, popup,
                 lastEvent, consumed, calls, clicked, indexBefore, threw,
                 downStart, downCount, hadRect, livePopups, liveComponents,
                 renderedIndex, escaped, handleUsed>>

\* The list renders again: useImperativeHandle installs an onKeyDown that
\* captures the current selectedIndex.
Render ==
  /\ active
  /\ renderedIndex # selectedIndex
  /\ renderedIndex' = selectedIndex
  /\ UNCHANGED <<registry, doc, active, query, range, items, selectedIndex,
                 component, popup, lastEvent, consumed, calls, clicked,
                 indexBefore, threw, downStart, downCount, hadRect,
                 livePopups, liveComponents, effectPending, escaped,
                 handleUsed>>

NextRender ==
  \/ TypeTrigger
  \/ DeleteTrigger
  \/ MoveCaretOut
  \/ Enter
  \/ Click
  \/ ArrowUpKey
  \/ ArrowDownKey
  \/ TypeCharProps
  \/ ResetEffect
  \/ Render

\* One registry and one text are enough for the interleavings.
InitRender ==
  /\ InitWith({"slashCommands"})
  /\ doc = <<>>

SpecRender == InitRender /\ [][NextRender]_vars

\* ------------------------------------------------------------ the claims

\* The registry of the session.
Reg == Registry(registry)

\* The title of entry k starts with the query, letter case ignored.
TitleHasPrefix(k, q) ==
  /\ Len(q) <= Len(Reg[k].title)
  /\ \A i \in 1..Len(q) : lowerChar[Reg[k].title[i]] = lowerChar[q[i]]

\* The description of entry k holds the query, letter case ignored.
DescriptionHolds(k, q) ==
  \E off \in 0..(Len(Reg[k].description) - Len(q)) :
    \A i \in 1..Len(q) :
      lowerChar[Reg[k].description[off + i]] = lowerChar[q[i]]

\* The positions of the registry entries that match the query.
Matching(q) ==
  {k \in 1..Len(Reg) : TitleHasPrefix(k, q) \/ DescriptionHolds(k, q)}

ItemSet == {items[i] : i \in 1..Len(items)}

\* The icons of the candidates, in order.
ItemIcons == [i \in 1..Len(items) |-> Reg[items[i]].icon]

Min(a, b) == IF a < b THEN a ELSE b

\* C1: in an open session every candidate's title starts with the query or
\* its description contains the query, case-insensitively, and when the cap
\* of 10 does not cut the list every such command of the registry is a
\* candidate.
C1_FilterMatchRule ==
  active =>
    /\ ItemSet \subseteq Matching(query)
    /\ (Cardinality(Matching(query)) <= 10
          => Matching(query) \subseteq ItemSet)

\* C1 witness: the query "H" has Ordered List as a candidate (its description
\* holds "h" in "with") and has not Paragraph (its title holds "h" but does
\* not start with it).
C1_Witness ==
  /\ active
  /\ registry = "slashCommands"
  /\ query = <<"H">>
  /\ 6 \in ItemSet
  /\ 1 \notin ItemSet
  /\ 2 \in ItemSet

\* C2: the candidates are the first min(10, number of matches) matching
\* registry positions in ascending order, so nothing is reordered or
\* repeated and there are at most 10; for the empty query they are the first
\* 10 commands of the registry.
C2_FilterOrderAndCap ==
  active =>
    /\ Len(items) = Min(10, Cardinality(Matching(query)))
    /\ \A i \in 1..Len(items) : \A j \in 1..Len(items) :
         i < j => items[i] < items[j]
    /\ \A k \in Matching(query) :
         (k \notin ItemSet => \A i \in 1..Len(items) : items[i] < k)
    /\ (query = <<>> => items = [i \in 1..Min(10, Len(Reg)) |-> i])

\* C2 witness: a registry of 13 commands and the empty query: 10 candidates.
C2_Witness ==
  /\ active
  /\ Len(Reg) > 10
  /\ query = <<>>
  /\ Len(items) = 10

\* C3 as stated: with the registry of six commands, right after the query
\* becomes "h" the candidates are Heading 1, Heading 2, Heading 3 and the
\* selected index is 0.
C3_Original ==
  (active /\ registry = "slashCommandsBase" /\ query = <<"h">>
     /\ lastEvent = "onUpdate")
    => (ItemIcons = <<"Heading1", "Heading2", "Heading3">> /\ selectedIndex = 0)

\* C3 amended: with the registry of six commands, right after the query
\* becomes "h" the candidates are Heading 1, Heading 2, Heading 3 and
\* Ordered List (whose description holds "h"), and the selected index is 0.
C3_QueryH ==
  (active /\ registry = "slashCommandsBase" /\ query = <<"h">>
     /\ lastEvent = "onUpdate")
    => (ItemIcons = <<"Heading1", "Heading2", "Heading3", "ListOrdered">>
          /\ selectedIndex = 0)

\* C3 witness: the user has typed "/h" with the registry of six commands.
C3_Witness ==
  /\ active
  /\ registry = "slashCommandsBase"
  /\ query = <<"h">>
  /\ lastEvent = "onUpdate"
  /\ doc = <<"/", "h">>

\* The list is on screen: the popup is shown and the component renders the
\* candidates (it renders nothing for an empty list).
ListVisible ==
  /\ active
  /\ popup = "shown"
  /\ component = "live"
  /\ items # <<>>

\* C4: whenever the list is on screen, selectedIndex is a number with
\* 0 <= selectedIndex < length(items).
C4_IndexValid ==
  ListVisible =>
    (selectedIndex # NaN /\ 0 <= selectedIndex /\ selectedIndex < Len(items))

\* C4 witness: the list is on screen again after arrow keys made
\* selectedIndex NaN on an empty list and the query changed.
C4_Witness ==
  /\ ListVisible
  /\ lastEvent = "onUpdate"
  /\ indexBefore = NaN

\* C5: right after the candidates are recomputed for a changed query,
\* selectedIndex is 0, whatever it was before.
C5_ResetOnQueryChange == lastEvent = "onUpdate" => selectedIndex = 0

\* C5 witness: the query changed while a candidate other than the first was
\* highlighted, and that index is an index of the new list too.
C5_Witness ==
  /\ lastEvent = "onUpdate"
  /\ indexBefore > 0
  /\ indexBefore < Len(items)
  /\ selectedIndex = 0

\* C6: on a list of n > 0 candidates ArrowDown takes selectedIndex i to
\* (i + 1) mod n and ArrowUp to (i - 1 + n) mod n; neither key changes the
\* candidates, the query or the range.
C6_ArrowStep ==
  [][/\ (lastEvent' = "ArrowDown" /\ items # <<>>)
          => selectedIndex' = (selectedIndex + 1) % Len(items)
     /\ (lastEvent' = "ArrowUp" /\ items # <<>>)
          => selectedIndex' = (selectedIndex - 1 + Len(items)) % Len(items)
     /\ lastEvent' \in {"ArrowDown", "ArrowUp"}
          => UNCHANGED <<items, query, range>>]_vars

\* C6 witness: ArrowUp on the first of at least three candidates has
\* highlighted the last one.
C6_Witness ==
  /\ lastEvent = "ArrowUp"
  /\ Len(items) >= 3
  /\ indexBefore = 0
  /\ selectedIndex = Len(items) - 1

\* C7: after length(items) ArrowDown keys in a row on a non-empty list,
\* selectedIndex is what it was before the first of them.
C7_DownWraps ==
  (active /\ items # <<>> /\ downCount = Len(items))
    => selectedIndex = downStart

\* C7 witness: a full round of ArrowDown keys on at least three candidates,
\* begun on a candidate other than the first.
C7_Witness ==
  /\ active
  /\ Len(items) >= 3
  /\ downCount = Len(items)
  /\ downStart > 0
  /\ selectedIndex = downStart

\* C8 as stated: ArrowUp and ArrowDown are consumed, and on an empty list
\* they leave selectedIndex as it was.
C8_ArrowsOnEmptyList ==
  lastEvent \in {"ArrowUp", "ArrowDown"} =>
    /\ consumed
    /\ (items = <<>> => selectedIndex = indexBefore)

\* C9 as stated: with a non-empty list, Enter and a click on a candidate
\* both invoke the command of items[selectedIndex], once, with the range.
C9_Original ==
  [][(lastEvent' \in {"Enter", "Click"} /\ items # <<>>)
       => calls' = <<[item |-> items[selectedIndex + 1], range |-> range]>>]_vars

\* C9 amended: with a non-empty list, Enter invokes the command of
\* items[selectedIndex] and a click on the candidate of index i invokes the
\* command of items[i]; each invokes it once and no other command, with the
\* range that spans the trigger character and the query.
C9_CommitInvokesItem ==
  [][/\ (lastEvent' = "Enter" /\ items # <<>>)
          => calls' = <<[item |-> items[selectedIndex + 1], range |-> range]>>
     /\ lastEvent' = "Click"
          => calls' = <<[item |-> items[clicked' + 1], range |-> range]>>
     /\ (lastEvent' \in {"Enter", "Click"} /\ items # <<>>)
          => /\ range.to - range.from = Len(query) + 1
             /\ doc[range.from] = "/"
             /\ SubSeq(doc, range.from + 1, range.to - 1) = query]_vars

\* C9 witness: a click on a candidate that was not the highlighted one has
\* invoked a command.
C9_Witness ==
  /\ lastEvent = "Click"
  /\ calls # <<>>
  /\ clicked # indexBefore

\* C10 as stated: the command of every committed candidate has deleteRange
\* before its own edit, and after the commit the trigger character and the
\* query are no longer in the text.
C10_DeletesRangeFirst ==
  calls # <<>> =>
    /\ \E i \in 1..(Len(Reg[calls[1].item].command) - 1) :
         Reg[calls[1].item].command[i] = "deleteRange"
    /\ Len(doc) = calls[1].range.from - 1
    /\ ~TriggerPresent(doc)

\* C11 as stated: after a commit (Enter or a click that invoked a command)
\* no session is open and the popup and the list component are destroyed.
C11_CommitCloses ==
  (lastEvent \in {"Enter", "Click"} /\ calls # <<>>) =>
    /\ ~active
    /\ component = "destroyed"
    /\ livePopups = 0
    /\ liveComponents = 0

\* C12 as stated: after Escape no session is open, the popup is destroyed
\* and no command was invoked.
C12_EscapeCloses ==
  lastEvent = "Escape" =>
    /\ ~active
    /\ popup \notin {"shown", "hidden"}
    /\ livePopups = 0
    /\ calls = <<>>

\* C13 as stated: Escape right after the trigger character was typed leaves
\* the text as it was before the trigger character was typed.
C13_Original ==
  [][(lastEvent = "onStart" /\ lastEvent' = "Escape")
       => doc' = SubSeq(doc, 1, range.from - 1)]_vars

\* C13 amended: Escape right after the trigger character was typed leaves
\* the text as it was right after the trigger character was typed: the text
\* from before the trigger followed by the trigger character, the caret
\* still behind it.
C13_EscapeKeepsText ==
  [][(lastEvent = "onStart" /\ lastEvent' = "Escape")
       => /\ doc' = doc
          /\ doc'[Len(doc')] = "/"
          /\ Len(doc') = range.from
          /\ UNCHANGED <<query, range>>]_vars

\* C13 witness: Escape was handled in a session whose query is empty and
\* the trigger character is the last character of the text.
C13_Witness ==
  /\ lastEvent = "Escape"
  /\ consumed
  /\ query = <<>>
  /\ doc # <<>>
  /\ doc[Len(doc)] = "/"

\* C14 as stated: the keydown handler returns true for ArrowUp, ArrowDown,
\* Enter and Escape, and false for every other key.
C14_KeyRouting ==
  /\ lastEvent \in {"ArrowUp", "ArrowDown", "Enter", "Escape"} => consumed
  /\ lastEvent \in {"OtherKey", "onUpdate"} => ~consumed

\* C15: Enter on an empty list is consumed, invokes no command, raises
\* nothing and leaves the session, the query, the range and the text as
\* they were.
C15_EnterOnEmptyList ==
  [][(lastEvent' = "Enter" /\ items = <<>>)
       => /\ consumed'
          /\ calls' = <<>>
          /\ ~threw'
          /\ active'
          /\ UNCHANGED <<query, range, doc, items, component, popup>>]_vars

\* C15 witness: Enter was handled on an empty list whose selectedIndex is
\* NaN.
C15_Witness ==
  /\ lastEvent = "Enter"
  /\ active
  /\ items = <<>>
  /\ indexBefore = NaN
  /\ calls = <<>>
  /\ consumed

\* C16: after every query change the session is open and its component
\* alive; when no command matches, the list is empty and nothing is
\* rendered; when commands match, they are rendered with the first one
\* selected.
C16_EmptyListKeepsSession ==
  lastEvent = "onUpdate" =>
    /\ active
    /\ component = "live"
    /\ liveComponents = 1
    /\ (Matching(query) = {}
          => items = <<>> /\ RenderList(items, selectedIndex) = <<>>)
    /\ (Matching(query) # {}
          => /\ Len(RenderList(items, selectedIndex)) = Len(items)
             /\ items # <<>>
             /\ selectedIndex = 0
             /\ RenderList(items, selectedIndex)[1].selected)

\* C16 witness: a further character was typed after a query that matched
\* nothing; the list is still empty and the session open.
C16_Witness ==
  /\ lastEvent = "onUpdate"
  /\ active
  /\ query = <<"z", "z">>
  /\ items = <<>>

\* C17: at most one popup and one list component are alive at any time, and
\* none is alive when no session is open, so a new session never starts
\* beside a popup or a component of an earlier one.
C17_OneLivePopup ==
  /\ livePopups <= 1
  /\ liveComponents <= 1
  /\ ~active => (livePopups = 0 /\ liveComponents = 0)
  /\ active => liveComponents = 1

\* C17 witness: a session is open after an earlier session whose popup was
\* destroyed; only the new component is alive.
C17_Witness ==
  /\ active
  /\ popup = "destroyed"
  /\ component = "live"
  /\ liveComponents = 1
  /\ livePopups = 0

\* C18 as stated: after an onStart or onUpdate that carries a caret
\* rectangle the session is open and its popup exists, positioned there,
\* whether or not earlier events of the session carried one.
C18_RectShowsPopup ==
  (lastEvent \in {"onStart", "onUpdate"} /\ hadRect) =>
    /\ active
    /\ ~threw
    /\ popup \in {"shown", "hidden"}

\* C19 as stated: no callback raises an error.
C19_NoCallbackThrows == ~threw

\* C20: when the utility closes the session (the trigger character was
\* deleted or the caret left the range), the popup and the list component
\* are destroyed, no command is invoked and the close edits no text: the
\* text is as before, or as before without the trigger character the user
\* deleted.
C20_WatcherClose ==
  [][lastEvent' = "onExit"
       => /\ ~active'
          /\ popup' \notin {"shown", "hidden"}
          /\ component' = "destroyed"
          /\ livePopups' = 0
          /\ liveComponents' = 0
          /\ calls' = <<>>
          /\ \/ doc' = doc
             \/ (query = <<>> /\ doc' = SubSeq(doc, 1, range.from - 1))]_vars

\* C20 witness: the caret left the range of a session with a popup; the
\* popup and the component are destroyed and the trigger character and the
\* query are still in the text.
C20_Witness ==
  /\ lastEvent = "onExit"
  /\ popup = "destroyed"
  /\ component = "destroyed"
  /\ TriggerPresent(doc)
  /\ calls = <<>>

\* C21 as stated: once Escape has been pressed in a session, no later key
\* of that session invokes a command.
C21_NoCommitAfterEscape ==
  [][(active /\ escaped) => calls' = <<>>]_vars

\* C22 as stated: no callback calls a method of a popup that an earlier
\* session created and destroyed.
C22_HandleOfOwnSession == handleUsed # "destroyed"

\* C23 as stated: Enter right after an arrow key, whether or not the list
\* has rendered in between, invokes the command of the item at the index
\* the arrow keys produced.
C23_EnterCommitsCurrentIndex ==
  [][(/\ lastEvent \in {"ArrowUp", "ArrowDown"}
      /\ lastEvent' = "Enter"
      /\ ~effectPending
      /\ selectedIndex # NaN
      /\ items # <<>>)
       => calls' = <<[item |-> items[selectedIndex + 1], range |-> range]>>]_vars

\* C24: a click on the option rendered at position i invokes the command of
\* the item of that option, items[i], once and no other command, whatever
\* selectedIndex is.
C24_ClickInvokesClicked ==
  [][lastEvent' = "Click"
       => /\ clicked' \in 0..(Len(items) - 1)
          /\ calls' =
               <<[item |-> RenderList(items, selectedIndex)[clicked' + 1].item,
                  range |-> range]>>
          /\ calls'[1].item = items[clicked' + 1]]_vars

\* C24 witness: with the second option highlighted, a click on the third
\* option has invoked one command.
C24_Witness ==
  /\ lastEvent = "Click"
  /\ indexBefore = 1
  /\ clicked = 2
  /\ Len(calls) = 1

\* C25: Enter and a click invoke at most one command, the command of an
\* item of the current list, and raise nothing; Enter invokes no command
\* and edits nothing when the index its handler holds is NaN or is no index
\* of the list.
C25_SelectItemInRange ==
  [][lastEvent' \in {"Enter", "Click"}
       => /\ ~threw'
          /\ Len(calls') <= 1
          /\ \A k \in 1..Len(calls') : calls'[k].item \in ItemSet
          /\ (lastEvent' = "Enter" /\ calls' # calls /\ calls' # <<>>)
               => (renderedIndex # NaN /\ renderedIndex < Len(items))
          /\ (/\ lastEvent' = "Enter"
              /\ (renderedIndex = NaN \/ renderedIndex >= Len(items)))
               => (calls' = <<>> /\ doc' = doc /\ active' = active)]_vars

\* C25 witness: Enter was handled with an index that the shorter list of
\* the last render no longer has; no command was invoked.
C25_Witness ==
  /\ lastEvent = "Enter"
  /\ active
  /\ items # <<>>
  /\ renderedIndex >= Len(items)
  /\ calls = <<>>
  /\ ~threw

====
